---- MODULE Spec2Model ----
(***************************************************************************)
(* n8n-openapi-node: the document walker (OpenAPIWalker.ts) and the        *)
(* schema-to-field compiler (SchemaToINodeProperties.ts).                  *)
(*                                                                         *)
(* Every JavaScript value (a document, an operation, a parameter, a        *)
(* schema, a field descriptor, an example) is one record                   *)
(*   [t: its kind, n: its number/boolean, s: its string, e: its entries]   *)
(* where the entries of an object are its own keys in insertion order and  *)
(* the entries of an array are its elements.                               *)
(***************************************************************************)
EXTENDS Integers, Sequences, FiniteSets, TLC

VARIABLES doc, docAtWalk, visitor, pc, pathIdx, entryIdx, calls, walks, err,
          call, result, cpc

walkerVars == <<doc, docAtWalk, visitor, pc, pathIdx, entryIdx, calls, walks, err>>
compilerVars == <<call, result, cpc>>
vars == <<doc, docAtWalk, visitor, pc, pathIdx, entryIdx, calls, walks, err,
          call, result, cpc>>

(***************************************************************************)
(* JavaScript values                                                       *)
(***************************************************************************)
Undefined == [t |-> "undefined", n |-> 0, s |-> "", e |-> <<>>]

Null == [t |-> "null", n |-> 0, s |-> "", e |-> <<>>]

Bool(b) == [t |-> "boolean", n |-> IF b THEN 1 ELSE 0, s |-> "", e |-> <<>>]

Num(i) == [t |-> "number", n |-> i, s |-> "", e |-> <<>>]

Str(str) == [t |-> "string", n |-> 0, s |-> str, e |-> <<>>]

KV(key, val) == [k |-> key, v |-> val]

\* an array literal: seq is the sequence of its elements
Arr(seq) == [t |-> "array", n |-> 0, s |-> "",
             e |-> [i \in 1..Len(seq) |-> KV("", seq[i])]]

\* an object literal: kvs is the sequence of its KV entries, in insertion order
Obj(kvs) == [t |-> "object", n |-> 0, s |-> "", e |-> kvs]

\* the elements of an array
Elems(a) == [i \in 1..Len(a.e) |-> a.e[i].v]

\* Object.keys(o)
Keys(o) == [i \in 1..Len(o.e) |-> o.e[i].k]

\* key in o
Has(o, key) == \E i \in 1..Len(o.e) : o.e[i].k = key

\* o[key] (o.key): undefined when o has no such key
Get(o, key) ==
    IF Has(o, key)
    THEN o.e[CHOOSE i \in 1..Len(o.e) : o.e[i].k = key].v
    ELSE Undefined

\* o[key] = val: an existing key keeps its place, a new key goes last
Put(o, key, val) ==
    IF Has(o, key)
    THEN [o EXCEPT !.e = [i \in 1..Len(o.e) |->
                            IF o.e[i].k = key THEN KV(key, val) ELSE o.e[i]]]
    ELSE [o EXCEPT !.e = Append(o.e, KV(key, val))]

\* delete o[key]
Delete(o, key) ==
    LET keep(ent) == ent.k # key
    IN  [o EXCEPT !.e = SelectSeq(o.e, keep)]

\* !v is false
Truthy(val) ==
    /\ val.t \notin {"undefined", "null"}
    /\ ~(val.t \in {"boolean", "number"} /\ val.n = 0)
    /\ ~(val.t = "string" /\ val.s = "")

\* a || b
OrElse(a, b) == IF Truthy(a) THEN a ELSE b

(***************************************************************************)
(* The reference resolver (RefResolver, a collaborator): resolve(node)     *)
(* follows named pointers until it reaches a node that is not a pointer.   *)
(***************************************************************************)
Ref(name) == Obj(<<KV("$ref", Str(name))>>)

Param(name, loc) == Obj(<<KV("name", Str(name)), KV("in", Str(loc))>>)

\* the named components of the documents: parameters and schemas
Components ==
    Obj(<<KV("#/components/parameters/x", Param("x", "query")),
          KV("#/components/schemas/Flag",
             Obj(<<KV("type", Str("boolean")), KV("description", Str("a flag"))>>)),
          KV("#/components/schemas/Color",
             Obj(<<KV("type", Str("string")),
                   KV("enum", Arr(<<Str("a_b"), Str("c")>>))>>)),
          KV("#/components/schemas/Alias", Ref("#/components/schemas/Color"))>>)

\* resolve(node) over a table of named components
RECURSIVE ResolveIn(_, _)
ResolveIn(components, node) ==
    IF Has(node, "$ref")
    THEN ResolveIn(components, Get(components, Get(node, "$ref").s))
    ELSE node

\* this.refResolver.resolve(node)
Resolve(node) == ResolveIn(Components, node)

(***************************************************************************)
(* OpenAPIWalker                                                           *)
(***************************************************************************)
MaxPaths == 2

MaxDocTags == 2

MaxParams == 2

MaxWalks == 2

\* Object.values(OpenAPIV3.HttpMethods)
HttpMethods == {"get", "put", "post", "delete", "options", "head", "patch", "trace"}

Handlers == {"visitDocument", "visitOperation", "visitTag", "finish"}

\* the record of one callback the visitor received
Event(cb, arg, ctx) == [cb |-> cb, arg |-> arg, ctx |-> ctx]

NoContext == Undefined

Context(pattern, pathItem, method) ==
    Obj(<<KV("pattern", Str(pattern)), KV("path", pathItem), KV("method", Str(method))>>)

\* walkDocument
WalkDocumentCalls(v, d) ==
    IF "visitDocument" \in v THEN <<Event("visitDocument", d, NoContext)>> ELSE <<>>

\* the operation's tag normalisation
MutantDefaultTagsAbsentOnly(operation) ==
    IF ~Truthy(Get(operation, "tags"))
    THEN Put(operation, "tags", Arr(<<Str("default")>>))
    ELSE operation

DefaultTags(operation) ==
    IF ~Truthy(Get(operation, "tags")) \/ Len(Get(operation, "tags").e) = 0
    THEN Put(operation, "tags", Arr(<<Str("default")>>))
    ELSE operation

\* operationParamNames: the names of the operation's parameters that are no references
OperationParamNames(operationParameters) ==
    {operationParameters[i].s : i \in {j \in 1..Len(operationParameters) :
                                            Truthy(operationParameters[j])}}

NamesOrNull(operationParameters) ==
    [i \in 1..Len(operationParameters) |->
        IF Has(operationParameters[i], "$ref")
        THEN Null
        ELSE Get(operationParameters[i], "name")]

MutantMergedNoOverride(pathLevelParameters, operationParameters) ==
    pathLevelParameters \o operationParameters

MutantMergedOperationFirst(pathLevelParameters, operationParameters) ==
    LET names == OperationParamNames(NamesOrNull(operationParameters))
        keep(p) == IF Has(p, "$ref") THEN TRUE ELSE Get(p, "name").s \notin names
    IN  operationParameters \o SelectSeq(pathLevelParameters, keep)

\* mergedParameters
MergedParameters(pathLevelParameters, operationParameters) ==
    LET names == OperationParamNames(NamesOrNull(operationParameters))
        keep(p) == IF Has(p, "$ref") THEN TRUE ELSE Get(p, "name").s \notin names
    IN  SelectSeq(pathLevelParameters, keep) \o operationParameters

\* the parameter merge of one operation under a path item
MergeParameters(pathItem, operation) ==
    LET pathLevelParameters == OrElse(Get(pathItem, "parameters"), Arr(<<>>))
        operationParameters == OrElse(Get(operation, "parameters"), Arr(<<>>))
    IN  IF Len(pathLevelParameters.e) > 0
        THEN Put(operation, "parameters",
                 Arr(MergedParameters(Elems(pathLevelParameters),
                                      Elems(operationParameters))))
        ELSE operation

MutantIsHttpMethodAnyKey(method) == method # "description"

IsHttpMethod(method) == method \in HttpMethods

MutantWalkTagsNoTagsGuard(v, tags) ==
    IF "visitTag" \notin v
    THEN [err |-> "none", calls |-> <<>>]
    ELSE IF ~Truthy(tags)
         THEN [err |-> "TypeError", calls |-> <<>>]
         ELSE [err |-> "none",
               calls |-> [i \in 1..Len(tags.e) |-> Event("visitTag", tags.e[i].v, NoContext)]]

MutantWalkTagsReversed(v, tags) ==
    IF ~Truthy(tags) \/ "visitTag" \notin v
    THEN [err |-> "none", calls |-> <<>>]
    ELSE [err |-> "none",
          calls |-> [i \in 1..Len(tags.e) |->
                        Event("visitTag", tags.e[Len(tags.e) + 1 - i].v, NoContext)]]

\* walkTags: what it raises and the callbacks it makes
WalkTagsOutcome(v, tags) ==
    IF ~Truthy(tags)
    THEN [err |-> "none", calls |-> <<>>]
    ELSE IF "visitTag" \notin v
         THEN [err |-> "none", calls |-> <<>>]
         ELSE [err |-> "none",
               calls |-> [i \in 1..Len(tags.e) |-> Event("visitTag", tags.e[i].v, NoContext)]]

\* this.doc.paths
Paths == Get(doc, "paths")

\* the path item the outer loop of walkPaths is at
PathItem == Paths.e[pathIdx].v

\* the [method, operation] entry the inner loop of walkPaths is at
Entry == PathItem.e[entryIdx]

\* walk(visitor) is called: walkDocument
WalkDocument ==
    /\ pc = "walkDocument"
    /\ calls' = calls \o WalkDocumentCalls(visitor, doc)
    /\ pc' = "walkPaths"
    /\ pathIdx' = 1
    /\ entryIdx' = 1
    /\ UNCHANGED <<doc, docAtWalk, visitor, walks, err>>
    /\ UNCHANGED compilerVars

\* walkPaths returns: no path table, or every path walked
WalkPathsReturn ==
    /\ pc = "walkPaths"
    /\ ~Truthy(Paths) \/ pathIdx > Len(Paths.e)
    /\ pc' = "walkTags"
    /\ UNCHANGED <<doc, docAtWalk, visitor, pathIdx, entryIdx, calls, walks, err>>
    /\ UNCHANGED compilerVars

\* every entry of the path item seen: the next path
WalkPathsNextPath ==
    /\ pc = "walkPaths"
    /\ Truthy(Paths) /\ pathIdx <= Len(Paths.e)
    /\ entryIdx > Len(PathItem.e)
    /\ pathIdx' = pathIdx + 1
    /\ entryIdx' = 1
    /\ UNCHANGED <<doc, docAtWalk, visitor, pc, calls, walks, err>>
    /\ UNCHANGED compilerVars

\* an entry of the path item whose key is no HTTP method: continue
WalkPathsSkipKey ==
    /\ pc = "walkPaths"
    /\ Truthy(Paths) /\ pathIdx <= Len(Paths.e)
    /\ entryIdx <= Len(PathItem.e)
    /\ ~IsHttpMethod(Entry.k)
    /\ entryIdx' = entryIdx + 1
    /\ UNCHANGED <<doc, docAtWalk, visitor, pc, pathIdx, calls, walks, err>>
    /\ UNCHANGED compilerVars

\* whether the operation at hand is passed to visitor.visitOperation
Visits(operation) == Truthy(operation) /\ "visitOperation" \in visitor

\* the operation at hand after walkPaths normalised it
Normalized ==
    LET tagged == DefaultTags(Entry.v)
    IN  IF Visits(tagged) THEN MergeParameters(PathItem, tagged) ELSE tagged

\* an operation of the path item: tags defaulted, parameters merged, visited
WalkPathsOperation ==
    /\ pc = "walkPaths"
    /\ Truthy(Paths) /\ pathIdx <= Len(Paths.e)
    /\ entryIdx <= Len(PathItem.e)
    /\ IsHttpMethod(Entry.k)
    /\ doc' = Put(doc, "paths", Put(Paths, Paths.e[pathIdx].k,
                                    Put(PathItem, Entry.k, Normalized)))
    /\ calls' = IF Visits(Normalized)
                 THEN Append(calls,
                             Event("visitOperation", Normalized,
                                   Context(Paths.e[pathIdx].k,
                                           Put(PathItem, Entry.k, Normalized), Entry.k)))
                 ELSE calls
    /\ entryIdx' = entryIdx + 1
    /\ UNCHANGED <<docAtWalk, visitor, pc, pathIdx, walks, err>>
    /\ UNCHANGED compilerVars

\* walkTags
WalkTags ==
    /\ pc = "walkTags"
    /\ LET out == WalkTagsOutcome(visitor, Get(doc, "tags"))
       IN  /\ calls' = calls \o out.calls
           /\ err' = out.err
           /\ pc' = IF out.err = "none" THEN "finish" ELSE "threw"
    /\ UNCHANGED <<doc, docAtWalk, visitor, pathIdx, entryIdx, walks>>
    /\ UNCHANGED compilerVars

\* the end of walk: the optional finish hook
Finish ==
    /\ pc = "finish"
    /\ calls' = IF "finish" \in visitor
                 THEN Append(calls, Event("finish", Undefined, NoContext))
                 ELSE calls
    /\ pc' = "done"
    /\ UNCHANGED <<doc, docAtWalk, visitor, pathIdx, entryIdx, walks, err>>
    /\ UNCHANGED compilerVars

\* the caller walks the same document again with the same visitor
WalkAgain ==
    /\ pc = "done"
    /\ walks < MaxWalks
    /\ walks' = walks + 1
    /\ docAtWalk' = doc
    /\ calls' = <<>>
    /\ pc' = "walkDocument"
    /\ UNCHANGED <<doc, visitor, pathIdx, entryIdx, err>>
    /\ UNCHANGED compilerVars

(***************************************************************************)
(* The documents and visitors walked                                       *)
(***************************************************************************)
SeqsUpTo(S, n) == UNION {[1..m -> S] : m \in 0..n}

Optional(key, val) == IF val = Undefined THEN <<>> ELSE <<KV(key, val)>>

Operation(id, tags, parameters) ==
    Obj(<<KV("operationId", Str(id))>> \o Optional("tags", tags)
        \o Optional("parameters", parameters))

Document(paths, tags) ==
    Obj(<<KV("openapi", Str("3.0.0"))>> \o Optional("paths", paths)
        \o Optional("tags", tags))

\* the i-th URL pattern of a path table: inserted in descending order
Pattern(i) == "/p" \o ToString(MaxPaths + 1 - i)

\* the i-th tag of a tag list: listed in descending order
Tag(i) == Obj(<<KV("name", Str("tag" \o ToString(MaxDocTags + 1 - i)))>>)

PathTable(items) == Obj([i \in 1..Len(items) |-> KV(Pattern(i), items[i])])

TagLists == {Undefined} \cup {Arr([i \in 1..m |-> Tag(i)]) : m \in {0, MaxDocTags}}

\* path items that differ in their keys and the order of their keys
OrderPathItems ==
    { Obj(<<KV("get", Operation("list", Undefined, Undefined))>>),
      Obj(<<KV("description", Str("a path")),
            KV("post", Operation("create", Arr(<<Str("pet")>>), Undefined)),
            KV("parameters", Arr(<<Param("y", "query")>>)),
            KV("get", Operation("read", Arr(<<>>), Undefined))>>) }

OrderDocuments ==
    { Document(paths, tags) :
        paths \in {Undefined} \cup {PathTable(items) : items \in SeqsUpTo(OrderPathItems, MaxPaths)},
        tags \in TagLists }

PathScopeParameters ==
    {Param("x", "query"), Param("y", "query"), Ref("#/components/parameters/x")}

OperationScopeParameters ==
    {Param("x", "header"), Param("y", "header"), Ref("#/components/parameters/x")}

ParameterLists(S) == {Undefined} \cup {Arr(ps) : ps \in SeqsUpTo(S, MaxParams)}

\* one path item whose scopes and tags vary
MergePathItem(pathParameters, parameters) ==
    Obj(Optional("parameters", pathParameters)
        \o <<KV("get", Operation("find", Undefined, parameters))>>)

MergeDocuments ==
    { Document(PathTable(<<MergePathItem(pp, op)>>), Undefined) :
        pp \in ParameterLists(PathScopeParameters),
        op \in ParameterLists(OperationScopeParameters) }

Visitors == SUBSET Handlers

WalkInputs ==
    (OrderDocuments \X Visitors)
    \cup (MergeDocuments \X {Handlers, Handlers \ {"visitOperation"}})

Init ==
    /\ \E input \in WalkInputs :
         /\ doc = input[1]
         /\ docAtWalk = input[1]
         /\ visitor = input[2]
    /\ pc = "walkDocument"
    /\ pathIdx = 1
    /\ entryIdx = 1
    /\ calls = <<>>
    /\ walks = 1
    /\ err = "none"
    /\ call = Undefined
    /\ result = Undefined
    /\ cpc = "idle"

Next ==
    \/ WalkDocument
    \/ WalkPathsReturn
    \/ WalkPathsNextPath
    \/ WalkPathsSkipKey
    \/ WalkPathsOperation
    \/ WalkTags
    \/ Finish
    \/ WalkAgain

Spec == Init /\ [][Next]_vars

(***************************************************************************)
(* The walker's claims                                                     *)
(***************************************************************************)
\* the callbacks of one kind, in the order received
CallsOf(cb) ==
    LET is(ev) == ev.cb = cb
    IN  SelectSeq(calls, is)

Rank(cb) ==
    CASE cb = "visitDocument" -> 1
      [] cb = "visitOperation" -> 2
      [] cb = "visitTag" -> 3
      [] cb = "finish" -> 4

WalkReturned == pc = "done"

\* the list under key of o, an absent list being empty
ListAt(o, key) == IF Truthy(Get(o, key)) THEN Elems(Get(o, key)) ELSE <<>>

\* the operation a visitOperation callback was about, as it was when this walk began
OperationAtWalk(ev) ==
    Get(Get(Get(docAtWalk, "paths"), Get(ev.ctx, "pattern").s), Get(ev.ctx, "method").s)

PathItemAtWalk(ev) == Get(Get(docAtWalk, "paths"), Get(ev.ctx, "pattern").s)

PathScope(ev) == ListAt(PathItemAtWalk(ev), "parameters")

OperationScope(ev) == ListAt(OperationAtWalk(ev), "parameters")

IsReference(p) == Has(p, "$ref")

Named(p, x) == ~IsReference(p) /\ Get(p, "name") = Str(x)

ParameterNames == {"x", "y"}

\* C1: the callbacks of a walk come in the order visitDocument (at most once),
\* then the visitOperation calls, then the visitTag calls, then finish (at most
\* once, last); a visitor that has visitTag gets one call per entry of the
\* document's tag list, in list order.
C1_CallbackOrder ==
    /\ \A i, j \in 1..Len(calls) : i < j => Rank(calls[i].cb) <= Rank(calls[j].cb)
    /\ Len(CallsOf("visitDocument")) <= 1
    /\ Len(CallsOf("finish")) <= 1
    /\ (pc \in {"finish", "done"} /\ "visitTag" \in visitor) =>
          CallsOf("visitTag") =
              [i \in 1..Len(ListAt(doc, "tags")) |->
                  Event("visitTag", ListAt(doc, "tags")[i], NoContext)]
    /\ pc \in {"walkDocument", "walkPaths", "walkTags"} => CallsOf("visitTag") = <<>>

C1_Witness ==
    /\ WalkReturned
    /\ Len(CallsOf("visitDocument")) = 1
    /\ Len(CallsOf("visitOperation")) >= 2
    /\ Len(CallsOf("visitTag")) >= 2
    /\ calls[Len(calls)].cb = "finish"

\* the merged list the claim expects: the path-scoped parameters that are references
\* or whose name no non-reference operation-scoped parameter has, then the
\* operation-scoped parameters
ExpectedMerge(pathScope, operationScope) ==
    LET overridden(p) == \E i \in 1..Len(operationScope) :
                            /\ ~IsReference(operationScope[i])
                            /\ Get(operationScope[i], "name") = Get(p, "name")
        retained(p) == IsReference(p) \/ ~overridden(p)
    IN  SelectSeq(pathScope, retained) \o operationScope

\* C2: the parameter list of an operation handed to visitOperation is the retained
\* path-scoped parameters, in path order, followed by all operation-scoped
\* parameters; when the path scope has a non-reference parameter named x and the
\* operation scope has one too, the list has exactly one parameter named x, the
\* operation-scoped one.
C2_MergePrecedence ==
    \A n \in 1..Len(calls) :
        calls[n].cb = "visitOperation" =>
            LET merged == ListAt(calls[n].arg, "parameters")
                pathScope == PathScope(calls[n])
                operationScope == OperationScope(calls[n])
                first == Len(merged) - Len(operationScope)
            IN  /\ merged = ExpectedMerge(pathScope, operationScope)
                /\ \A x \in ParameterNames :
                      ( /\ \E i \in 1..Len(pathScope) : Named(pathScope[i], x)
                        /\ Cardinality({i \in 1..Len(operationScope) :
                                            Named(operationScope[i], x)}) = 1 )
                      => \E i \in 1..Len(operationScope) :
                            /\ Named(operationScope[i], x)
                            /\ {j \in 1..Len(merged) : Named(merged[j], x)} = {first + i}
                            /\ merged[first + i] = operationScope[i]

C2_Witness ==
    \E n \in 1..Len(calls) :
        /\ calls[n].cb = "visitOperation"
        /\ \E i \in 1..Len(PathScope(calls[n])) :
              PathScope(calls[n])[i] = Param("x", "query")
        /\ PathScope(calls[n])[Len(PathScope(calls[n]))] = Param("y", "query")
        /\ OperationScope(calls[n]) = <<Param("x", "header")>>
        /\ ListAt(calls[n].arg, "parameters") = <<Param("y", "query"), Param("x", "header")>>

\* the name of the parameter a parameter resolves to
EffectiveName(p) == Get(Resolve(p), "name").s

DistinctEffectiveNames(ps) ==
    \A i, j \in 1..Len(ps) : i # j => EffectiveName(ps[i]) # EffectiveName(ps[j])

\* C3 as stated: when each scope has pairwise distinct effective names, no two
\* parameters of the merged list have the same effective name.
C3_EffectiveNamesUnique ==
    \A n \in 1..Len(calls) :
        ( /\ calls[n].cb = "visitOperation"
          /\ DistinctEffectiveNames(PathScope(calls[n]))
          /\ DistinctEffectiveNames(OperationScope(calls[n])) )
        => DistinctEffectiveNames(ListAt(calls[n].arg, "parameters"))

\* C3 as amended: when each scope has pairwise distinct effective names, no two
\* parameters of the merged list that are both not references have the same name.
C3_NonReferenceNamesUnique ==
    \A n \in 1..Len(calls) :
        ( /\ calls[n].cb = "visitOperation"
          /\ DistinctEffectiveNames(PathScope(calls[n]))
          /\ DistinctEffectiveNames(OperationScope(calls[n])) )
        => LET merged == ListAt(calls[n].arg, "parameters")
           IN  \A i, j \in 1..Len(merged) :
                  (i # j /\ ~IsReference(merged[i]) /\ ~IsReference(merged[j]))
                  => Get(merged[i], "name") # Get(merged[j], "name")

C3_Witness ==
    \E n \in 1..Len(calls) :
        /\ calls[n].cb = "visitOperation"
        /\ PathScope(calls[n]) = <<Param("x", "query"), Param("y", "query")>>
        /\ OperationScope(calls[n]) = <<Param("y", "header"), Param("x", "header")>>
        /\ ListAt(calls[n].arg, "parameters") = OperationScope(calls[n])

\* the (pattern, method) places of the operations of a document, in walk order
OperationPlaces(d) ==
    LET paths == Get(d, "paths")
        places(i) == LET item == paths.e[i].v
                         isMethod(key) == key \in HttpMethods
                         methods == SelectSeq(Keys(item), isMethod)
                     IN  [m \in 1..Len(methods) |-> <<paths.e[i].k, methods[m]>>]
        flat[i \in 0..Len(paths.e)] == IF i = 0 THEN <<>> ELSE flat[i - 1] \o places(i)
    IN  IF Truthy(paths) THEN flat[Len(paths.e)] ELSE <<>>

OperationAt(d, place) == Get(Get(Get(d, "paths"), place[1]), place[2])

DefaultTagList == Arr(<<Str("default")>>)

HasNoTags(operation) ==
    \/ ~Has(operation, "tags")
    \/ Get(operation, "tags") = Arr(<<>>)

\* the tag list the claim expects of an operation that began the walk as before
TagsAsClaimed(before, tags) ==
    IF HasNoTags(before) THEN tags = DefaultTagList ELSE tags = Get(before, "tags")

\* C4: an operation whose tag list is absent or empty has the tag list ["default"]
\* when it is passed to visitOperation and after walk returns; an operation with a
\* non-empty tag list keeps it.
C4_TagDefaulting ==
    /\ \A n \in 1..Len(calls) :
          calls[n].cb = "visitOperation" =>
              TagsAsClaimed(OperationAtWalk(calls[n]), Get(calls[n].arg, "tags"))
    /\ WalkReturned =>
          \A i \in 1..Len(OperationPlaces(docAtWalk)) :
              LET place == OperationPlaces(docAtWalk)[i]
              IN  TagsAsClaimed(OperationAt(docAtWalk, place),
                                Get(OperationAt(doc, place), "tags"))

C4_Witness ==
    /\ WalkReturned
    /\ walks = 1
    /\ \E n \in 1..Len(calls) :
          /\ calls[n].cb = "visitOperation"
          /\ Get(OperationAtWalk(calls[n]), "tags") = Arr(<<>>)
          /\ Get(calls[n].arg, "tags") = DefaultTagList
    /\ \E i, j \in 1..Len(OperationPlaces(docAtWalk)) :
          /\ ~Has(OperationAt(docAtWalk, OperationPlaces(docAtWalk)[i]), "tags")
          /\ Get(OperationAt(doc, OperationPlaces(docAtWalk)[i]), "tags") = DefaultTagList
          /\ Get(OperationAt(doc, OperationPlaces(docAtWalk)[j]), "tags") = Arr(<<Str("pet")>>)

\* the (pattern, method) of the visitOperation callbacks, in the order received
VisitedPlaces ==
    LET visits == CallsOf("visitOperation")
    IN  [n \in 1..Len(visits) |->
            <<Get(visits[n].ctx, "pattern").s, Get(visits[n].ctx, "method").s>>]

IsPrefix(a, b) == Len(a) <= Len(b) /\ a = SubSeq(b, 1, Len(a))

\* C5: a visitor that has visitOperation gets one call for each entry of the path
\* table whose key is an HTTP method, in the order of the path table and then of the
\* path item, with that URL pattern, that path item and that key as the context, and
\* no call for another key.
C5_OperationVisits ==
    "visitOperation" \in visitor =>
        /\ IsPrefix(VisitedPlaces, OperationPlaces(docAtWalk))
        /\ pc \in {"walkTags", "finish", "done"} => VisitedPlaces = OperationPlaces(docAtWalk)
        /\ \A n \in 1..Len(calls) :
              calls[n].cb = "visitOperation" =>
                  LET ctx == calls[n].ctx
                      pattern == Get(ctx, "pattern").s
                      method == Get(ctx, "method").s
                  IN  /\ Keys(ctx) = <<"pattern", "path", "method">>
                      /\ method \in HttpMethods
                      /\ Has(Get(docAtWalk, "paths"), pattern)
                      /\ Keys(Get(ctx, "path")) = Keys(PathItemAtWalk(calls[n]))
                      /\ Get(Get(ctx, "path"), method) = calls[n].arg
                      /\ \A key \in {"description", "parameters"} \cup HttpMethods :
                            Get(Get(ctx, "path"), key) \in
                                {Get(PathItemAtWalk(calls[n]), key),
                                 Get(Get(Get(doc, "paths"), pattern), key)}

C5_Witness ==
    /\ WalkReturned
    /\ "visitOperation" \in visitor
    /\ Len(VisitedPlaces) = 3
    /\ VisitedPlaces[1][1] # VisitedPlaces[3][1]
    /\ VisitedPlaces[1][2] = "post"
    /\ VisitedPlaces[2][2] = "get"
    /\ Keys(PathItemAtWalk(CallsOf("visitOperation")[1])) =
           <<"description", "post", "parameters", "get">>

\* C6: whatever handlers the visitor has, and with or without a path table and a
\* tag list, walk raises nothing on its way to its return and calls only handlers
\* the visitor has: none at all for a visitor that has none.
C6_OptionalSectionsAndHandlers ==
    /\ err = "none"
    /\ pc \in {"walkDocument", "walkPaths", "walkTags", "finish", "done"}
    /\ \A n \in 1..Len(calls) : calls[n].cb \in visitor
    /\ visitor = {} => calls = <<>>

C6_Witness ==
    /\ WalkReturned
    /\ ~Has(doc, "paths")
    /\ Len(ListAt(doc, "tags")) >= 2
    /\ visitor = {"visitOperation", "finish"}
    /\ calls = <<Event("finish", Undefined, NoContext)>>

(***************************************************************************)
(* N8NINodeProperties (the first class of SchemaToINodeProperties.ts)      *)
(***************************************************************************)
\* this.schemaExample.extractExample(schema) (SchemaExample, a collaborator)
ExtractExample(schema) == Get(schema, "example")

\* the text of s1, ..., sn with sep between them
Join(strs, sep) ==
    LET joined[i \in 0..Len(strs)] ==
            IF i = 0 THEN ""
            ELSE IF i = 1 THEN strs[1]
            ELSE joined[i - 1] \o sep \o strs[i]
    IN  joined[Len(strs)]

\* JSON.stringify(val, null, 2) at the indentation ind; the strings of the model
\* hold no character that is escaped
RECURSIVE Stringify(_, _)
Stringify(val, ind) ==
    LET inner == ind \o "  "
        defined(ent) == ent.v.t # "undefined"
        members == SelectSeq(val.e, defined)
    IN  CASE val.t \in {"undefined", "null"} -> "null"
          [] val.t = "boolean" -> IF val.n = 1 THEN "true" ELSE "false"
          [] val.t = "number" -> ToString(val.n)
          [] val.t = "string" -> "\"" \o val.s \o "\""
          [] val.t = "array" ->
                IF Len(val.e) = 0 THEN "[]"
                ELSE "[\n"
                     \o Join([i \in 1..Len(val.e) |-> inner \o Stringify(val.e[i].v, inner)],
                             ",\n")
                     \o "\n" \o ind \o "]"
          [] val.t = "object" ->
                IF Len(members) = 0 THEN "{}"
                ELSE "{\n"
                     \o Join([i \in 1..Len(members) |->
                                 inner \o "\"" \o members[i].k \o "\": "
                                 \o Stringify(members[i].v, inner)],
                             ",\n")
                     \o "\n" \o ind \o "}"

JSONStringify(val) == Str(Stringify(val, ""))

\* lodash.startCase, on the names and literals of the model
StartCase(val) ==
    IF val.t = "number" THEN ToString(val.n)
    ELSE CASE val.s = "a_b" -> "A B"
           [] val.s = "c" -> "C"
           [] val.s = "tags" -> "Tags"
           [] val.s = "a.b" -> "A B"
           [] val.s = "body" -> "Body"
           [] val.s = "id" -> "Id"
           [] val.s = "meta" -> "Meta"
           [] val.s = "" -> ""

\* the switch on schema.type: the presentation type and the default
MutantTypeAndDefaultBooleanTrue(type, defaultValue) ==
    CASE type = Str("boolean") ->
            [type |-> Str("boolean"),
             default |-> IF defaultValue = Undefined THEN Bool(TRUE) ELSE defaultValue]
      [] type \in {Str("string"), Undefined} ->
            [type |-> Str("string"), default |-> defaultValue]
      [] type \in {Str("object"), Str("array")} ->
            [type |-> Str("json"),
             default |-> IF defaultValue # Undefined
                         THEN JSONStringify(defaultValue) ELSE defaultValue]
      [] type \in {Str("number"), Str("integer")} ->
            [type |-> Str("number"), default |-> defaultValue]
      [] OTHER -> [type |-> Undefined, default |-> defaultValue]

TypeAndDefault(type, defaultValue) ==
    CASE type = Str("boolean") ->
            [type |-> Str("boolean"),
             default |-> IF defaultValue = Undefined THEN Bool(FALSE) ELSE defaultValue]
      [] type \in {Str("string"), Undefined} ->
            [type |-> Str("string"), default |-> defaultValue]
      [] type \in {Str("object"), Str("array")} ->
            [type |-> Str("json"),
             default |-> IF defaultValue # Undefined
                         THEN JSONStringify(defaultValue) ELSE defaultValue]
      [] type \in {Str("number"), Str("integer")} ->
            [type |-> Str("number"), default |-> defaultValue]
      [] OTHER -> [type |-> Undefined, default |-> defaultValue]

\* schema.enum.map(...): one {name, value} option per literal
EnumOptions(enum) ==
    Arr([i \in 1..Len(enum.e) |->
            Obj(<<KV("name", Str(StartCase(enum.e[i].v))), KV("value", enum.e[i].v)>>)])

MutantEnumDefaultTruthy(default, enum) ==
    IF Truthy(default) THEN default ELSE enum.e[1].v

\* field.default of an enumeration
EnumDefault(default, enum) ==
    IF default # Undefined THEN default ELSE enum.e[1].v

\* fromSchema(schema)
FromSchema(schemaOrRef) ==
    LET schema == Resolve(schemaOrRef)
        inferred == TypeAndDefault(Get(schema, "type"), ExtractExample(schema))
        field == Obj(<<KV("type", inferred.type),
                       KV("description", Get(schema, "description")),
                       KV("default", inferred.default)>>)
        enum == Get(schema, "enum")
    IN  IF Truthy(enum) /\ Len(enum.e) > 0
        THEN Put(Put(Put(field, "type", Str("options")),
                     "options", EnumOptions(enum)),
                 "default", EnumDefault(Get(field, "default"), enum))
        ELSE field

\* second variant: the switch on schema.type, the presentation type and the default
TypeAndDefaultSecondVariant(type, defaultValue) ==
    CASE type = Str("boolean") ->
            [type |-> Str("boolean"),
             default |-> IF defaultValue # Undefined THEN defaultValue ELSE Bool(TRUE)]
      [] type \in {Str("string"), Undefined} ->
            [type |-> Str("string"),
             default |-> IF defaultValue # Undefined THEN defaultValue ELSE Str("")]
      [] type = Str("object") ->
            [type |-> Str("json"),
             default |-> IF defaultValue # Undefined
                         THEN JSONStringify(defaultValue) ELSE Str("{}")]
      [] type = Str("array") ->
            [type |-> Str("json"),
             default |-> IF defaultValue # Undefined
                         THEN JSONStringify(defaultValue) ELSE Str("[]")]
      [] type \in {Str("number"), Str("integer")} ->
            [type |-> Str("number"),
             default |-> IF defaultValue # Undefined THEN defaultValue ELSE Num(0)]
      [] OTHER -> [type |-> Undefined, default |-> defaultValue]

MutantEnumDefaultSecondVariantDefined(default, enum) ==
    IF default # Undefined THEN default ELSE enum.e[1].v

\* second variant: field.default of an enumeration
EnumDefaultSecondVariant(default, enum) ==
    IF Truthy(default) THEN default ELSE enum.e[1].v

\* second variant: fromSchema(schema)
FromSchemaSecondVariant(schemaOrRef) ==
    LET schema == Resolve(schemaOrRef)
        inferred == TypeAndDefaultSecondVariant(Get(schema, "type"), ExtractExample(schema))
        field == Obj(<<KV("type", inferred.type),
                       KV("default", inferred.default),
                       KV("description", Get(schema, "description"))>>)
        enum == Get(schema, "enum")
    IN  IF Truthy(enum) /\ Len(enum.e) > 0
        THEN Put(Put(Put(field, "type", Str("options")),
                     "options", EnumOptions(enum)),
                 "default", EnumDefaultSecondVariant(Get(field, "default"), enum))
        ELSE field

\* what a call ends in: a returned value, or a thrown error
Return(val) == [kind |-> "return", value |-> val, error |-> "", message |-> ""]

Throw(error, message) ==
    [kind |-> "throw", value |-> Undefined, error |-> error, message |-> message]

\* `${val}` in a template string
Text(val) == IF val.t = "undefined" THEN "undefined" ELSE val.s

\* lodash.defaults(object, source): every key of source that object holds as undefined
Defaults(object, source) ==
    LET filled[i \in 0..Len(source.e)] ==
            IF i = 0 THEN object
            ELSE IF Get(filled[i - 1], source.e[i].k) = Undefined
                 THEN Put(filled[i - 1], source.e[i].k, source.e[i].v)
                 ELSE filled[i - 1]
    IN  filled[Len(source.e)]

\* combine(first, second)
Combine(first, second) ==
    LET obj == Defaults(Defaults(Obj(<<>>), first), second)
        required == IF ~Truthy(Get(obj, "required")) THEN Delete(obj, "required") ELSE obj
        defined(ent) == ent.v # Undefined
    IN  [required EXCEPT !.e = SelectSeq(required.e, defined)]

\* /application\/json.*/.test(key), on the media types of the model
TestJsonRegexp(key) ==
    CASE key \in {"application/json", "application/json; charset=utf-8"} -> TRUE
      [] key \in {"text/plain", "*/*", "application/xml"} -> FALSE

\* findKey(obj, regexp) raises a TypeError: Object.keys of undefined or null
FindKeyThrows(obj) == obj.t \in {"undefined", "null"}

\* findKey(obj, regexp)
FindKey(obj) ==
    LET hits == {i \in 1..Len(obj.e) : TestJsonRegexp(obj.e[i].k)}
        key == IF hits = {} THEN Undefined
               ELSE Str(obj.e[CHOOSE i \in hits : \A j \in hits : i <= j].k)
    IN  IF Truthy(key) THEN Get(obj, key.s) ELSE Undefined

\* name.replace(/\./g, "-"), on the names of the model
ReplaceDots(name) ==
    CASE name = "a.b" -> "a-b"
      [] name \in {"tags", "id", "body", "meta"} -> name

\* encodeURIComponent(name), on the names of the model
EncodeURIComponent(name) ==
    CASE name \in {"tags", "id", "a-b", "body", "meta"} -> name

\* getArrayItemType(itemsSchema)
GetArrayItemType(itemsSchema) ==
    CASE Get(itemsSchema, "type") = Str("boolean") -> Str("boolean")
      [] Get(itemsSchema, "type") \in {Str("number"), Str("integer")} -> Str("number")
      [] OTHER -> Str("string")

\* getArrayItemDefault(itemsSchema)
GetArrayItemDefault(itemsSchema) ==
    IF ExtractExample(itemsSchema) # Undefined
    THEN ExtractExample(itemsSchema)
    ELSE IF Get(itemsSchema, "type") = Str("boolean") THEN Bool(FALSE) ELSE Undefined

SendQuery(property, value) ==
    Obj(<<KV("send", Obj(<<KV("type", Str("query")),
                          KV("property", property),
                          KV("value", Str(value)),
                          KV("propertyInDotNotation", Bool(FALSE))>>))>>)

MutantArrayQueryRoutingIgnoresExplode(parameter) ==
    SendQuery(Get(parameter, "name"),
              "={{ $value.items ? $value.items.map(item => item.value) : [] }}")

\* getArrayQueryRouting(parameter, schema)
GetArrayQueryRouting(parameter) ==
    LET style == OrElse(Get(parameter, "style"), Str("form"))
        explode == Get(parameter, "explode") # Bool(FALSE)
    IN  IF style = Str("form") /\ explode
        THEN SendQuery(Get(parameter, "name"),
                       "={{ $value.items ? $value.items.map(item => item.value) : [] }}")
        ELSE IF style = Str("form") /\ ~explode
        THEN SendQuery(Get(parameter, "name"),
                       "={{ $value.items ? $value.items.map(item => item.value).join(\",\") : \"\" }}")
        ELSE SendQuery(Get(parameter, "name"),
                       "={{ $value.items ? $value.items.map(item => item.value) : [] }}")

\* fromArrayQueryParameter(schema, parameter) raises its type-guard error
FromArrayQueryParameterThrows(schema) ==
    Get(schema, "type") # Str("array") \/ ~Truthy(Get(schema, "items"))

\* fromArrayQueryParameter(schema, parameter)
FromArrayQueryParameter(schema, parameter) ==
    LET itemsSchema == Resolve(Get(schema, "items"))
        defaultValue == ExtractExample(schema)
        value == Obj(<<KV("displayName", Str("Value")),
                       KV("name", Str("value")),
                       KV("type", GetArrayItemType(itemsSchema)),
                       KV("default", GetArrayItemDefault(itemsSchema)),
                       KV("description",
                          OrElse(Get(itemsSchema, "description"),
                                 Str("Item value ("
                                     \o OrElse(Get(itemsSchema, "type"), Str("any")).s
                                     \o ")")))>>)
        field == Obj(<<KV("type", Str("fixedCollection")),
                       KV("default", Obj(<<>>)),
                       KV("description",
                          OrElse(Get(schema, "description"), Get(parameter, "description"))),
                       KV("typeOptions", Obj(<<KV("multipleValues", Bool(TRUE))>>)),
                       KV("options",
                          Arr(<<Obj(<<KV("name", Str("items")),
                                      KV("displayName", Str("Items")),
                                      KV("values", Arr(<<value>>))>>)>>))>>)
    IN  IF defaultValue # Undefined /\ defaultValue.t = "array" /\ Len(defaultValue.e) > 0
        THEN Put(field, "default",
                 Obj(<<KV("items",
                          Arr([i \in 1..Len(defaultValue.e) |->
                                  Obj(<<KV("value", defaultValue.e[i].v)>>)]))>>))
        ELSE field

MutantLocatedFieldPathNotForced(parameter, field, isArrayQueryParam) ==
    LET location == Get(parameter, "in")
        routed ==
            CASE location = Str("query") ->
                    Put(field, "routing",
                        IF isArrayQueryParam
                        THEN GetArrayQueryRouting(parameter)
                        ELSE SendQuery(Get(parameter, "name"), "={{ $value }}"))
              [] location = Str("path") -> field
              [] location = Str("header") ->
                    Put(field, "routing",
                        Obj(<<KV("request",
                                 Obj(<<KV("headers",
                                          Obj(<<KV(Get(parameter, "name").s,
                                                   Str("={{ $value }}"))>>))>>))>>))
    IN  IF location \notin {Str("query"), Str("path"), Str("header")}
        THEN Throw("Error", "Unknown parameter location '" \o Text(location) \o "'")
        ELSE Return(IF ~Truthy(Get(routed, "required"))
                    THEN Delete(routed, "required") ELSE routed)

\* fromParameter: the routing and required flag by location
LocatedField(parameter, field, isArrayQueryParam) ==
    LET location == Get(parameter, "in")
        routed ==
            CASE location = Str("query") ->
                    Put(field, "routing",
                        IF isArrayQueryParam
                        THEN GetArrayQueryRouting(parameter)
                        ELSE SendQuery(Get(parameter, "name"), "={{ $value }}"))
              [] location = Str("path") -> Put(field, "required", Bool(TRUE))
              [] location = Str("header") ->
                    Put(field, "routing",
                        Obj(<<KV("request",
                                 Obj(<<KV("headers",
                                          Obj(<<KV(Get(parameter, "name").s,
                                                   Str("={{ $value }}"))>>))>>))>>))
    IN  IF location \notin {Str("query"), Str("path"), Str("header")}
        THEN Throw("Error", "Unknown parameter location '" \o Text(location) \o "'")
        ELSE Return(IF ~Truthy(Get(routed, "required"))
                    THEN Delete(routed, "required") ELSE routed)

\* fromParameter(parameter)
FromParameter(parameterOrRef) ==
    LET parameter == Resolve(parameterOrRef)
        content == FindKey(Get(parameter, "content"))
        fieldSchemaKeys == IF Truthy(Get(parameter, "schema"))
                           THEN FromSchema(Get(parameter, "schema"))
                           ELSE FromSchema(Get(content, "schema"))
        schema == Resolve(OrElse(Get(parameter, "schema"), Get(content, "schema")))
        isArrayQueryParam == /\ Get(parameter, "in") = Str("query")
                             /\ Truthy(schema)
                             /\ Get(schema, "type") = Str("array")
        name == Get(parameter, "name").s
        fieldParameterKeys ==
            Obj(<<KV("displayName", Str(StartCase(Get(parameter, "name")))),
                  KV("name", Str(EncodeURIComponent(ReplaceDots(name)))),
                  KV("required", Get(parameter, "required"))>>
                \o (IF Truthy(Get(parameter, "description"))
                    THEN <<KV("description", Get(parameter, "description"))>> ELSE <<>>)
                \o (IF Get(parameter, "example") # Undefined
                    THEN <<KV("default", Get(parameter, "example"))>> ELSE <<>>))
    IN  IF ~Truthy(Get(parameter, "schema")) /\ FindKeyThrows(Get(parameter, "content"))
        THEN Throw("TypeError", "Cannot convert undefined or null to object")
        ELSE IF ~Truthy(Get(parameter, "schema")) /\ content.t \in {"undefined", "null"}
        THEN Throw("TypeError", "Cannot read properties of undefined (reading 'schema')")
        ELSE IF ~Truthy(fieldSchemaKeys)
        THEN Throw("Error", "Parameter schema nor content not found")
        ELSE IF isArrayQueryParam /\ FromArrayQueryParameterThrows(schema)
        THEN Throw("Error", "fromArrayQueryParameter called with non-array schema")
        ELSE LocatedField(parameter,
                          Combine(fieldParameterKeys,
                                  IF isArrayQueryParam
                                  THEN FromArrayQueryParameter(schema, parameter)
                                  ELSE fieldSchemaKeys),
                          isArrayQueryParam)

\* fromSchemaProperty(name, property)
FromSchemaProperty(name, property) ==
    Combine(Obj(<<KV("displayName", Str(StartCase(Str(name)))),
                  KV("name", Str(ReplaceDots(name)))>>),
            FromSchema(property))

\* fromRequestBody: the media-type entry chosen, with its media type
ChosenContent(body) ==
    LET json == FindKey(Get(body, "content"))
        wildcard == Get(Get(body, "content"), "*/*")
        contentTypes == Keys(OrElse(Get(body, "content"), Obj(<<>>)))
    IN  IF Truthy(json) THEN [content |-> json, contentType |-> "application/json"]
        ELSE IF Truthy(wildcard) THEN [content |-> wildcard, contentType |-> "*/*"]
        ELSE IF Len(contentTypes) > 0
        THEN [content |-> Get(Get(body, "content"), contentTypes[1]),
              contentType |-> contentTypes[1]]
        ELSE [content |-> Undefined, contentType |-> "*/*"]

IsScalarType(type) ==
    type \in {Str("string"), Str("number"), Str("integer"), Str("boolean")}

RequestBody(value) == Obj(<<KV("request", Obj(<<KV("body", Str(value))>>))>>)

SendBody(key, value) ==
    Obj(<<KV("send", Obj(<<KV("property", Str(key)),
                          KV("propertyInDotNotation", Bool(FALSE)),
                          KV("type", Str("body")),
                          KV("value", Str(value))>>))>>)

MutantScalarBodyFieldNeverBinary(body, schema, contentType) ==
    Put(Combine(Obj(<<KV("displayName", Str("Body")),
                      KV("name", Str("body")),
                      KV("required", Get(body, "required")),
                      KV("description",
                         OrElse(Get(schema, "description"), Str("Request body content")))>>),
                FromSchema(schema)),
        "routing", RequestBody("={{ $value }}"))

\* fromRequestBody: the field of a scalar body
ScalarBodyField(body, schema, contentType) ==
    LET field == Combine(Obj(<<KV("displayName", Str("Body")),
                               KV("name", Str("body")),
                               KV("required", Get(body, "required")),
                               KV("description",
                                  OrElse(Get(schema, "description"),
                                         Str("Request body content")))>>),
                         FromSchema(schema))
    IN  IF contentType = "*/*" /\ Get(schema, "type") = Str("string")
        THEN Put(Put(Put(Put(Put(field, "type", Str("string")),
                             "displayName", Str("Binary Property")),
                         "default", Str("data")),
                     "routing",
                     Obj(<<KV("send", Obj(<<KV("type", Str("body")),
                                           KV("property", Str("$value"))>>)),
                           KV("request",
                              Obj(<<KV("headers",
                                       Obj(<<KV("Content-Type",
                                                Str("={{ $binary[$parameter[\"body\"]].mimeType }}"))>>))>>))>>)),
                 "description",
                 Str("Name of the binary property containing the file to upload"))
        ELSE Put(field, "routing", RequestBody("={{ $value }}"))

\* fromRequestBody: the field of an array body
ArrayBodyField(body, schema) ==
    LET innerSchema == Resolve(Get(schema, "items"))
    IN  Put(Combine(Obj(<<KV("required", Get(body, "required"))>>),
                    FromSchemaProperty("body", innerSchema)),
            "routing", RequestBody("={{ JSON.parse($value) }}"))

\* schema.required && schema.required.includes(key)
RequiredIncludes(schema, key) ==
    IF ~Truthy(Get(schema, "required")) THEN Get(schema, "required")
    ELSE Bool(\E i \in 1..Len(Get(schema, "required").e) :
                 Get(schema, "required").e[i].v = Str(key))

MutantPropertyFieldAlwaysRaw(schema, key, property) ==
    Put(Combine(Obj(<<KV("required", RequiredIncludes(schema, key))>>),
                FromSchemaProperty(key, property)),
        "routing", SendBody(key, "={{ $value }}"))

\* fromRequestBody: the field of one declared property of an object body
PropertyField(schema, key, property) ==
    LET field == Combine(Obj(<<KV("required", RequiredIncludes(schema, key))>>),
                         FromSchemaProperty(key, property))
    IN  IF Get(field, "type") = Str("json")
        THEN Put(field, "routing", SendBody(key, "={{ JSON.parse($value) }}"))
        ELSE Put(field, "routing", SendBody(key, "={{ $value }}"))

MutantNotSupportedWithoutProperties(schema) == ~Truthy(Get(schema, "properties"))

\* fromRequestBody: the schema is of no supported shape
NotSupported(schema) ==
    ~Truthy(Get(schema, "properties")) /\ Get(schema, "type") # Str("object")

\* fromRequestBody(body)
FromRequestBody(bodyOrRef) ==
    LET body == Resolve(bodyOrRef)
        chosen == ChosenContent(body)
        schema == Resolve(Get(chosen.content, "schema"))
        properties == Get(schema, "properties")
    IN  IF ~Truthy(bodyOrRef) THEN Return(Arr(<<>>))
        ELSE IF FindKeyThrows(Get(body, "content"))
        THEN Throw("TypeError", "Cannot convert undefined or null to object")
        ELSE IF ~Truthy(chosen.content)
        THEN Throw("Error", "No content found in request body")
        ELSE IF ~Truthy(properties) /\ IsScalarType(Get(schema, "type"))
        THEN Return(Arr(<<ScalarBodyField(body, schema, chosen.contentType)>>))
        ELSE IF Get(schema, "type") = Str("array") /\ Truthy(Get(schema, "items"))
        THEN Return(Arr(<<ArrayBodyField(body, schema)>>))
        ELSE IF NotSupported(schema)
        THEN Throw("Error", "Request body schema type '"
                            \o Text(Get(schema, "type")) \o "' not supported")
        ELSE Return(Arr([i \in 1..Len(properties.e) |->
                            PropertyField(schema, properties.e[i].k, properties.e[i].v)]))

(***************************************************************************)
(* The calls made on the compiler                                          *)
(***************************************************************************)
SchemaTypes ==
    {Undefined, Str("boolean"), Str("string"), Str("object"), Str("array"),
     Str("number"), Str("integer"), Str("null")}

NestedExample ==
    Obj(<<KV("a", Num(1)), KV("b", Arr(<<Str("s"), Bool(TRUE)>>))>>)

Examples ==
    {Undefined, Bool(TRUE), Bool(FALSE), Str("s"), Str(""), Num(0), Num(5),
     Obj(<<>>), NestedExample, Arr(<<>>), Arr(<<Num(1), Str("s")>>)}

Enums == {Undefined, Arr(<<>>), Arr(<<Str("a_b"), Str("c")>>), Arr(<<Num(2), Num(1)>>)}

Descriptions == {Undefined, Str("a description")}

Schema(type, description, enum, example) ==
    Obj(Optional("type", type) \o Optional("description", description)
        \o Optional("enum", enum) \o Optional("example", example))

Schemas ==
    { Schema(type, description, enum, example) :
        type \in SchemaTypes, description \in Descriptions,
        enum \in Enums, example \in Examples }
    \cup {Ref("#/components/schemas/Flag"), Ref("#/components/schemas/Alias")}

ArrayOf(items, example) ==
    Obj(<<KV("type", Str("array"))>> \o Optional("items", items)
        \o Optional("example", example))

StringSchema == Schema(Str("string"), Undefined, Undefined, Undefined)

ParameterSchemas ==
    { StringSchema,
      Schema(Str("string"), Str("a description"), Undefined, Str("s")),
      Schema(Str("boolean"), Undefined, Undefined, Undefined),
      Ref("#/components/schemas/Color"),
      ArrayOf(StringSchema, Undefined),
      ArrayOf(StringSchema, Arr(<<Str("a"), Str("b")>>)),
      ArrayOf(Ref("#/components/schemas/Flag"), Undefined),
      ArrayOf(Undefined, Undefined) }

MediaType(schema) == Obj(<<KV("schema", schema)>>)

ParameterContents ==
    { Undefined,
      Obj(<<>>),
      Obj(<<KV("text/plain", MediaType(StringSchema))>>),
      Obj(<<KV("application/xml", MediaType(StringSchema)),
            KV("*/*", MediaType(StringSchema))>>),
      Obj(<<KV("application/json", MediaType(StringSchema))>>),
      Obj(<<KV("text/plain", MediaType(StringSchema)),
            KV("application/json; charset=utf-8",
               MediaType(ArrayOf(StringSchema, Undefined)))>>) }

ParameterShapes ==
    {<<schema, Undefined>> : schema \in ParameterSchemas}
    \cup {<<Undefined, content>> : content \in ParameterContents}

Parameters ==
    { Obj(<<KV("name", Str(name)), KV("in", Str(location))>>
          \o Optional("required", required) \o Optional("description", description)
          \o Optional("example", example) \o Optional("style", style)
          \o Optional("explode", explode) \o Optional("schema", shape[1])
          \o Optional("content", shape[2])) :
        name \in {"tags", "a.b"},
        location \in {"query", "path", "header", "cookie"},
        required \in {Undefined, Bool(TRUE), Bool(FALSE)},
        description \in {Undefined, Str("about")},
        example \in {Undefined, Str(""), Arr(<<Str("a"), Str("b")>>)},
        style \in {Undefined, Str("form"), Str("pipeDelimited")},
        explode \in {Undefined, Bool(TRUE), Bool(FALSE)},
        shape \in ParameterShapes }

ObjectSchema(properties, required) ==
    Obj(<<KV("type", Str("object"))>> \o Optional("properties", properties)
        \o Optional("required", required))

DeclaredProperties ==
    Obj(<<KV("id", Schema(Str("integer"), Undefined, Undefined, Undefined)),
          KV("meta", Schema(Str("object"), Undefined, Undefined, NestedExample)),
          KV("a.b", Ref("#/components/schemas/Color")),
          KV("tags", ArrayOf(StringSchema, Undefined))>>)

BodySchemas ==
    { StringSchema,
      Schema(Str("string"), Str("a description"), Undefined, Str("s")),
      Schema(Str("number"), Undefined, Undefined, Undefined),
      Schema(Str("integer"), Undefined, Undefined, Num(5)),
      Ref("#/components/schemas/Flag"),
      ArrayOf(StringSchema, Undefined),
      ArrayOf(Schema(Str("number"), Undefined, Undefined, Num(5)), Undefined),
      ArrayOf(Schema(Str("object"), Undefined, Undefined, NestedExample), Undefined),
      ArrayOf(Schema(Str("array"), Undefined, Undefined, Undefined), Undefined),
      ArrayOf(Ref("#/components/schemas/Color"), Undefined),
      ArrayOf(Undefined, Undefined),
      ObjectSchema(DeclaredProperties, Arr(<<Str("id"), Str("a.b")>>)),
      ObjectSchema(DeclaredProperties, Undefined),
      ObjectSchema(Undefined, Undefined),
      Obj(<<KV("properties", DeclaredProperties)>>),
      Schema(Str("null"), Undefined, Undefined, Undefined),
      Schema(Undefined, Undefined, Undefined, Undefined) }

BodyContents ==
    { Undefined, Obj(<<>>) }
    \cup { Obj(<<KV(mediaType, MediaType(schema))>>) :
             mediaType \in {"application/json", "*/*", "text/plain"},
             schema \in BodySchemas }
    \cup { Obj(<<KV("text/plain", MediaType(StringSchema)),
                 KV("*/*", MediaType(ArrayOf(StringSchema, Undefined))),
                 KV("application/json; charset=utf-8",
                    MediaType(ObjectSchema(DeclaredProperties, Undefined)))>>),
           Obj(<<KV("application/xml", MediaType(ArrayOf(StringSchema, Undefined))),
                 KV("*/*", MediaType(StringSchema))>>),
           Obj(<<KV("application/xml", MediaType(ArrayOf(StringSchema, Undefined))),
                 KV("text/plain", MediaType(StringSchema))>>) }

RequestBodies ==
    {Undefined}
    \cup { Obj(Optional("required", required) \o Optional("content", content)) :
             required \in {Undefined, Bool(TRUE), Bool(FALSE)},
             content \in BodyContents }

Call(fn, arg) == [fn |-> fn, arg |-> arg]

Calls ==
    {Call("fromSchema", schema) : schema \in Schemas}
    \cup {Call("fromSchemaSecondVariant", schema) : schema \in Schemas}
    \cup {Call("fromParameter", parameter) : parameter \in Parameters}
    \cup {Call("fromRequestBody", body) : body \in RequestBodies}

NoResult == [kind |-> "none", value |-> Undefined, error |-> "", message |-> ""]

InitCompiler ==
    /\ call \in Calls
    /\ result = NoResult
    /\ cpc = "called"
    /\ doc = Undefined
    /\ docAtWalk = Undefined
    /\ visitor = {}
    /\ pc = "idle"
    /\ pathIdx = 1
    /\ entryIdx = 1
    /\ calls = <<>>
    /\ walks = 1
    /\ err = "none"

FromSchemaCall ==
    /\ cpc = "called"
    /\ call.fn = "fromSchema"
    /\ result' = Return(FromSchema(call.arg))
    /\ cpc' = "returned"
    /\ UNCHANGED call
    /\ UNCHANGED walkerVars

FromParameterCall ==
    /\ cpc = "called"
    /\ call.fn = "fromParameter"
    /\ result' = FromParameter(call.arg)
    /\ cpc' = "returned"
    /\ UNCHANGED call
    /\ UNCHANGED walkerVars

FromRequestBodyCall ==
    /\ cpc = "called"
    /\ call.fn = "fromRequestBody"
    /\ result' = FromRequestBody(call.arg)
    /\ cpc' = "returned"
    /\ UNCHANGED call
    /\ UNCHANGED walkerVars

FromSchemaSecondVariantCall ==
    /\ cpc = "called"
    /\ call.fn = "fromSchemaSecondVariant"
    /\ result' = Return(FromSchemaSecondVariant(call.arg))
    /\ cpc' = "returned"
    /\ UNCHANGED call
    /\ UNCHANGED walkerVars

NextCompiler ==
    \/ FromSchemaCall
    \/ FromSchemaSecondVariantCall
    \/ FromParameterCall
    \/ FromRequestBodyCall

SpecCompiler == InitCompiler /\ [][NextCompiler]_vars

(***************************************************************************)
(* The compiler's claims                                                   *)
(***************************************************************************)
Returned(fn) == cpc = "returned" /\ call.fn = fn

\* the schema a fromSchema call is about, resolved
CalledSchema == Resolve(call.arg)

HasEnumeration(schema) ==
    Has(schema, "enum") /\ Len(Get(schema, "enum").e) > 0

\* the pretty-printed JSON text of the examples of the model
PrettyText(example) ==
    CASE example = Bool(TRUE) -> "true"
      [] example = Bool(FALSE) -> "false"
      [] example = Str("s") -> "\"s\""
      [] example = Str("") -> "\"\""
      [] example = Num(0) -> "0"
      [] example = Num(5) -> "5"
      [] example = Obj(<<>>) -> "{}"
      [] example = NestedExample ->
            "{\n  \"a\": 1,\n  \"b\": [\n    \"s\",\n    true\n  ]\n}"
      [] example = Arr(<<>>) -> "[]"
      [] example = Arr(<<Num(1), Str("s")>>) -> "[\n  1,\n  \"s\"\n]"

TableKinds ==
    {Undefined, Str("boolean"), Str("string"), Str("object"), Str("array"),
     Str("number"), Str("integer")}

\* the presentation type of the type-inference table
TableType(kind) ==
    CASE kind = Str("boolean") -> Str("boolean")
      [] kind \in {Str("string"), Undefined} -> Str("string")
      [] kind \in {Str("object"), Str("array")} -> Str("json")
      [] kind \in {Str("number"), Str("integer")} -> Str("number")

\* the default of the type-inference table: Undefined for none
TableDefault(kind, example) ==
    IF example = Undefined
    THEN IF kind = Str("boolean") THEN Bool(FALSE) ELSE Undefined
    ELSE IF kind \in {Str("object"), Str("array")}
         THEN Str(PrettyText(example))
         ELSE example

\* C7: for a schema without an enumeration fromSchema returns the presentation type
\* and the default of the type-inference table: false for a boolean without example,
\* no default for the other kinds without example, the pretty-printed JSON text of
\* the example for an object or array, the example itself for the other kinds.
C7_TypeInferenceTable ==
    ( /\ Returned("fromSchema")
      /\ ~HasEnumeration(CalledSchema)
      /\ Get(CalledSchema, "type") \in TableKinds )
    => /\ result.kind = "return"
       /\ Get(result.value, "type") = TableType(Get(CalledSchema, "type"))
       /\ Get(result.value, "default") =
              TableDefault(Get(CalledSchema, "type"), Get(CalledSchema, "example"))
       /\ ~Has(result.value, "options")

C7_Witness ==
    /\ Returned("fromSchema")
    /\ ~Has(CalledSchema, "enum")
    /\ Get(CalledSchema, "type") = Str("object")
    /\ Get(CalledSchema, "example") = NestedExample
    /\ Get(result.value, "type") = Str("json")
    /\ Get(result.value, "default") =
           Str("{\n  \"a\": 1,\n  \"b\": [\n    \"s\",\n    true\n  ]\n}")

\* C8: for a schema with a non-empty enumeration fromSchema returns the type options
\* whatever the declared kind, one option per literal, in declaration order, whose
\* value is the literal, and as default the default of the type-inference table
\* when there is one, else the first literal.
C8_EnumerationOverride ==
    (Returned("fromSchema") /\ HasEnumeration(CalledSchema))
    => LET enum == Elems(Get(CalledSchema, "enum"))
           options == Elems(Get(result.value, "options"))
           tableDefault == TableDefault(Get(CalledSchema, "type"),
                                        Get(CalledSchema, "example"))
       IN  /\ result.kind = "return"
           /\ Get(result.value, "type") = Str("options")
           /\ Len(options) = Len(enum)
           /\ \A i \in 1..Len(enum) : Get(options[i], "value") = enum[i]
           /\ Get(CalledSchema, "type") \in TableKinds =>
                 Get(result.value, "default") =
                     IF tableDefault # Undefined THEN tableDefault ELSE enum[1]

C8_Witness ==
    /\ Returned("fromSchema")
    /\ CalledSchema = Obj(<<KV("type", Str("string")),
                            KV("enum", Arr(<<Str("a_b"), Str("c")>>))>>)
    /\ Get(result.value, "type") = Str("options")
    /\ Get(result.value, "default") = Str("a_b")
    /\ Get(result.value, "options") =
           Arr(<<Obj(<<KV("name", Str("A B")), KV("value", Str("a_b"))>>),
                 Obj(<<KV("name", Str("C")), KV("value", Str("c"))>>)>>)

JsonMediaTypes == {"application/json", "application/json; charset=utf-8"}

\* the parameter has no schema and no content entry under a JSON media type
HasNoSchemaNorJsonContent(parameter) ==
    /\ ~Has(parameter, "schema")
    /\ \A i \in 1..Len(Get(parameter, "content").e) :
          Get(parameter, "content").e[i].k \notin JsonMediaTypes

\* C9: fromParameter fails with the error 'Parameter schema nor content not found'
\* whenever the parameter has neither a schema nor a content entry under a JSON
\* media type, and fails in no other way.
C9_MissingSchemaError ==
    (Returned("fromParameter") /\ HasNoSchemaNorJsonContent(Resolve(call.arg)))
    => /\ result.kind = "throw"
       /\ result.error = "Error"
       /\ result.message = "Parameter schema nor content not found"

\* the schema of the media-type entry fromRequestBody compiles, resolved
CalledBodySchema ==
    Resolve(Get(ChosenContent(Resolve(call.arg)).content, "schema"))

IsArrayBodyCall ==
    /\ Returned("fromRequestBody")
    /\ Truthy(call.arg)
    /\ Has(Resolve(call.arg), "content")
    /\ Truthy(ChosenContent(Resolve(call.arg)).content)
    /\ Get(CalledBodySchema, "type") = Str("array")
    /\ Has(CalledBodySchema, "items")

\* C10: an array request body compiles into exactly one descriptor named "body" of
\* type json, whatever the item schema, whose routing sends JSON.parse of the value
\* as the whole request body.
C10_ArrayBodyIsJson ==
    IsArrayBodyCall
    => /\ result.kind = "return"
       /\ Len(result.value.e) = 1
       /\ Get(result.value.e[1].v, "name") = Str("body")
       /\ Get(result.value.e[1].v, "type") = Str("json")
       /\ Get(result.value.e[1].v, "routing") =
              Obj(<<KV("request",
                       Obj(<<KV("body", Str("={{ JSON.parse($value) }}"))>>))>>)

\* the body a fromRequestBody call is about, resolved
CalledBody == Resolve(call.arg)

\* the position, in the content map, of the media-type entry the resolution order
\* names: the first JSON-compatible one, else the wildcard one, else the first one
NamedEntry(content) ==
    LET json == {i \in 1..Len(content.e) : content.e[i].k \in JsonMediaTypes}
        wildcard == {i \in 1..Len(content.e) : content.e[i].k = "*/*"}
    IN  IF json # {} THEN CHOOSE i \in json : \A j \in json : i <= j
        ELSE IF wildcard # {} THEN CHOOSE i \in wildcard : TRUE
        ELSE 1

\* the body with its content map cut down to the one entry at position i
WithOnlyEntry(body, i) ==
    Put(body, "content", Obj(<<Get(body, "content").e[i]>>))

DeclaresNoContent(body) ==
    ~Has(body, "content") \/ Len(Get(body, "content").e) = 0

\* C11 (resolution order): a body that declares content compiles exactly as the body
\* holding only the entry the resolution order names: the first JSON-compatible
\* media type, else the wildcard media type, else the first media type.
C11_ResolutionOrder ==
    (Returned("fromRequestBody") /\ Truthy(call.arg) /\ ~DeclaresNoContent(CalledBody))
    => result = FromRequestBody(
                    WithOnlyEntry(CalledBody, NamedEntry(Get(CalledBody, "content"))))

\* C11: fromRequestBody compiles the entry the resolution order names, and fails
\* with the error 'No content found in request body', never with another fault and
\* never with a result, whenever the body declares no content, its content map
\* being empty or absent.
C11_ContentResolution ==
    /\ C11_ResolutionOrder
    /\ (Returned("fromRequestBody") /\ Truthy(call.arg) /\ DeclaresNoContent(CalledBody))
       => /\ result.kind = "throw"
          /\ result.error = "Error"
          /\ result.message = "No content found in request body"

HasDeclaredContent ==
    Returned("fromRequestBody") /\ Truthy(call.arg) /\ ~DeclaresNoContent(CalledBody)

IsScalarKind(schema) ==
    Get(schema, "type") \in {Str("string"), Str("number"), Str("integer"), Str("boolean")}

NotSupportedMessages ==
    { "Request body schema type 'null' not supported",
      "Request body schema type 'undefined' not supported",
      "Request body schema type 'array' not supported" }

RaisesNotSupported ==
    /\ result.kind = "throw"
    /\ result.error = "Error"
    /\ result.message \in NotSupportedMessages

\* C12 as stated: fromRequestBody raises the error 'Request body schema type ... not
\* supported' whenever the resolved body schema is neither an array, nor an object
\* with declared properties, nor a scalar, an object without properties included.
C12_UnsupportedShapeRaises ==
    ( /\ HasDeclaredContent
      /\ Get(CalledBodySchema, "type") # Str("array")
      /\ ~Has(CalledBodySchema, "properties")
      /\ ~IsScalarKind(CalledBodySchema) )
    => RaisesNotSupported

\* C12 (amended): fromRequestBody raises the error 'Request body schema type ... not
\* supported' whenever the resolved body schema has no declared properties and is
\* neither a scalar, nor an array with items, nor of type object; for an object
\* without declared properties it returns the empty descriptor list.
C12_UnsupportedShapeButObject ==
    (HasDeclaredContent /\ ~Has(CalledBodySchema, "properties")
                        /\ ~IsScalarKind(CalledBodySchema))
    => /\ ( /\ Get(CalledBodySchema, "type") # Str("object")
            /\ ~( /\ Get(CalledBodySchema, "type") = Str("array")
                  /\ Has(CalledBodySchema, "items") ) )
          => RaisesNotSupported
       /\ Get(CalledBodySchema, "type") = Str("object")
          => (result.kind = "return" /\ result.value = Arr(<<>>))

C12_Witness ==
    /\ HasDeclaredContent
    /\ CalledBodySchema = Obj(<<KV("type", Str("null"))>>)
    /\ result.kind = "throw"
    /\ result.message = "Request body schema type 'null' not supported"

\* the parameter a fromParameter call is about, resolved
CalledParameter == Resolve(call.arg)

\* the schema of the called parameter, resolved
CalledParameterSchema == Resolve(Get(CalledParameter, "schema"))

HasArraySchema == Get(CalledParameterSchema, "type") = Str("array")

LocatedAt(location) ==
    /\ Returned("fromParameter")
    /\ Has(CalledParameter, "schema")
    /\ Get(CalledParameter, "in") = Str(location)

RawQueryRule(name) ==
    Obj(<<KV("send", Obj(<<KV("type", Str("query")),
                          KV("property", name),
                          KV("value", Str("={{ $value }}")),
                          KV("propertyInDotNotation", Bool(FALSE))>>))>>)

RawHeaderRule(name) ==
    Obj(<<KV("request", Obj(<<KV("headers", Obj(<<KV(name.s, Str("={{ $value }}"))>>))>>))>>)

RequiredOnlyWhenDeclared ==
    result.kind = "return"
    => /\ Has(result.value, "required") <=> Get(CalledParameter, "required") = Bool(TRUE)
       /\ Has(result.value, "required") => Get(result.value, "required") = Bool(TRUE)

\* C13: for a parameter with a schema the location fixes the routing and the required
\* flag: query with a non-array schema gives a query send rule under the original name
\* with the raw value; path gives required true whatever is declared and no routing;
\* header gives a request-header rule keyed by the original name with the raw value;
\* any other location raises 'Unknown parameter location' and returns nothing; for
\* query and header the required key is present only when declared true.
C13_RoutingByLocation ==
    /\ (LocatedAt("query") /\ ~HasArraySchema)
       => /\ result.kind = "return"
          /\ Get(result.value, "routing") = RawQueryRule(Get(CalledParameter, "name"))
    /\ LocatedAt("query") => RequiredOnlyWhenDeclared
    /\ LocatedAt("path")
       => /\ result.kind = "return"
          /\ Get(result.value, "required") = Bool(TRUE)
          /\ ~Has(result.value, "routing")
    /\ LocatedAt("header")
       => /\ result.kind = "return"
          /\ Get(result.value, "routing") = RawHeaderRule(Get(CalledParameter, "name"))
          /\ RequiredOnlyWhenDeclared
    /\ LocatedAt("cookie")
       => /\ result.kind = "throw"
          /\ result.error = "Error"
          /\ result.message = "Unknown parameter location 'cookie'"

C13_Witness ==
    /\ LocatedAt("path")
    /\ Get(CalledParameter, "name") = Str("a.b")
    /\ Get(CalledParameter, "required") = Bool(FALSE)
    /\ result.kind = "return"
    /\ Get(result.value, "name") = Str("a-b")
    /\ Get(result.value, "required") = Bool(TRUE)

\* the schema fromParameter compiles: the parameter's own, else the one of its first
\* content entry under a JSON media type; resolved
EffectiveParameterSchema ==
    LET content == Get(CalledParameter, "content")
        json == {i \in 1..Len(content.e) : content.e[i].k \in JsonMediaTypes}
    IN  IF Has(CalledParameter, "schema") THEN CalledParameterSchema
        ELSE IF json = {} THEN Undefined
        ELSE Resolve(Get(content.e[CHOOSE i \in json : \A j \in json : i <= j].v, "schema"))

\* an array-valued query parameter: its resolved schema is an array of some item schema
IsArrayQueryCall ==
    /\ Returned("fromParameter")
    /\ Get(CalledParameter, "in") = Str("query")
    /\ Get(EffectiveParameterSchema, "type") = Str("array")
    /\ Has(EffectiveParameterSchema, "items")

QueryRule(name, value) ==
    Obj(<<KV("send", Obj(<<KV("type", Str("query")),
                          KV("property", name),
                          KV("value", Str(value)),
                          KV("propertyInDotNotation", Bool(FALSE))>>))>>)

RepeatedEntryRule(name) ==
    QueryRule(name, "={{ $value.items ? $value.items.map(item => item.value) : [] }}")

CommaJoinedRule(name) ==
    QueryRule(name,
              "={{ $value.items ? $value.items.map(item => item.value).join(\",\") : \"\" }}")

\* C14: fromParameter never fails for an array-valued query parameter, whatever its
\* style and explode, and its routing is the repeated-entry rule when style is form
\* or absent and explode is true or absent, the comma-joined rule when style is form
\* or absent and explode is false, and the repeated-entry rule for every other style.
C14_ArrayQueryRouting ==
    IsArrayQueryCall
    => LET style == Get(CalledParameter, "style")
           explode == Get(CalledParameter, "explode")
           name == Get(CalledParameter, "name")
       IN  /\ result.kind = "return"
           /\ (style \in {Undefined, Str("form")} /\ explode \in {Undefined, Bool(TRUE)})
              => Get(result.value, "routing") = RepeatedEntryRule(name)
           /\ (style \in {Undefined, Str("form")} /\ explode = Bool(FALSE))
              => Get(result.value, "routing") = CommaJoinedRule(name)
           /\ style \notin {Undefined, Str("form")}
              => Get(result.value, "routing") = RepeatedEntryRule(name)

C14_Witness ==
    /\ IsArrayQueryCall
    /\ Get(CalledParameter, "name") = Str("tags")
    /\ Get(CalledParameter, "style") = Str("form")
    /\ Get(CalledParameter, "explode") = Bool(FALSE)
    /\ Get(result.value, "routing") = CommaJoinedRule(Str("tags"))

\* the explicit example of an array-valued query parameter: the one of its schema,
\* else the one of the parameter itself
ExplicitExample ==
    IF Has(EffectiveParameterSchema, "example")
    THEN Get(EffectiveParameterSchema, "example")
    ELSE Get(CalledParameter, "example")

\* the grouped form of an example: {items: [{value: v}, ...]}
Grouped(example) ==
    Obj(<<KV("items", Arr([i \in 1..Len(example.e) |->
                              Obj(<<KV("value", example.e[i].v)>>)]))>>)

\* C15: the descriptor of an array-valued query parameter has type fixedCollection
\* with one repeatable group holding one sub-field named "value", and its default is
\* in grouped form: {} without an explicit example, else {items: [...]} with one
\* {value: v} per element of the example, in order, whether the example is given on
\* the schema or on the parameter.
C15_GroupedDefault ==
    (IsArrayQueryCall /\ ExplicitExample.t \in {"undefined", "array"})
    => /\ result.kind = "return"
       /\ Get(result.value, "type") = Str("fixedCollection")
       /\ Get(Get(result.value, "typeOptions"), "multipleValues") = Bool(TRUE)
       /\ Len(Get(result.value, "options").e) = 1
       /\ Len(Get(Get(result.value, "options").e[1].v, "values").e) = 1
       /\ Get(Get(Get(result.value, "options").e[1].v, "values").e[1].v, "name")
              = Str("value")
       /\ Get(result.value, "default") =
              IF ExplicitExample = Undefined THEN Obj(<<>>) ELSE Grouped(ExplicitExample)

\* an object body: the resolved schema of the chosen entry declares properties
IsObjectBodyCall ==
    /\ HasDeclaredContent
    /\ Has(CalledBodySchema, "properties")
    /\ Get(CalledBodySchema, "type") \in {Str("object"), Undefined}

InRequiredSet(schema, key) ==
    /\ Has(schema, "required")
    /\ \E i \in 1..Len(Get(schema, "required").e) : Get(schema, "required").e[i].v = Str(key)

BodySendRule(key, value) ==
    Obj(<<KV("send", Obj(<<KV("property", Str(key)),
                          KV("propertyInDotNotation", Bool(FALSE)),
                          KV("type", Str("body")),
                          KV("value", Str(value))>>))>>)

\* C16: an object body with declared properties compiles into exactly one descriptor
\* per declared property, in declaration order; the descriptor carries required true
\* exactly when the key is in the schema's required set and no required key
\* otherwise; its routing is a body send rule addressed by the original key, whose
\* value is JSON.parse of the input exactly when the descriptor's type is json and
\* the raw value for every other type.
C16_ObjectBodyProperties ==
    IsObjectBodyCall
    => LET properties == Get(CalledBodySchema, "properties").e
           fields == result.value.e
       IN  /\ result.kind = "return"
           /\ Len(fields) = Len(properties)
           /\ \A i \in 1..Len(properties) :
                 LET key == properties[i].k
                     field == fields[i].v
                 IN  /\ Has(field, "required") <=> InRequiredSet(CalledBodySchema, key)
                     /\ Has(field, "required") => Get(field, "required") = Bool(TRUE)
                     /\ Get(field, "routing") =
                            IF Get(field, "type") = Str("json")
                            THEN BodySendRule(key, "={{ JSON.parse($value) }}")
                            ELSE BodySendRule(key, "={{ $value }}")

C16_Witness ==
    /\ IsObjectBodyCall
    /\ Has(CalledBodySchema, "required")
    /\ result.kind = "return"
    /\ Len(result.value.e) = 4
    /\ Get(result.value.e[2].v, "type") = Str("json")
    /\ ~Has(result.value.e[2].v, "required")
    /\ Get(result.value.e[2].v, "routing") = BodySendRule("meta", "={{ JSON.parse($value) }}")
    /\ Get(result.value.e[3].v, "name") = Str("a-b")
    /\ Get(result.value.e[3].v, "type") = Str("options")
    /\ Get(result.value.e[3].v, "required") = Bool(TRUE)
    /\ Get(result.value.e[3].v, "routing") = BodySendRule("a.b", "={{ $value }}")

\* a scalar body: the resolved schema of the chosen entry is a scalar without properties
IsScalarBodyCall ==
    /\ HasDeclaredContent
    /\ ~Has(CalledBodySchema, "properties")
    /\ IsScalarKind(CalledBodySchema)

\* the media type of the entry the resolution order names
NamedMediaType ==
    Get(CalledBody, "content").e[NamedEntry(Get(CalledBody, "content"))].k

BinaryUploadRule ==
    Obj(<<KV("send", Obj(<<KV("type", Str("body")), KV("property", Str("$value"))>>)),
          KV("request",
             Obj(<<KV("headers",
                      Obj(<<KV("Content-Type",
                               Str("={{ $binary[$parameter[\"body\"]].mimeType }}"))>>))>>))>>)

RawBodyRule ==
    Obj(<<KV("request", Obj(<<KV("body", Str("={{ $value }}"))>>))>>)

\* C17: a scalar body without properties compiles into exactly one descriptor named
\* "body"; it is the binary-upload descriptor (type string, default "data", a body
\* send rule and a Content-Type header rule taken from the binary's media type)
\* exactly when the chosen media type is */* and the schema kind is string; in every
\* other scalar case its routing forwards the raw value as the whole request body.
C17_ScalarBody ==
    IsScalarBodyCall
    => LET field == result.value.e[1].v
           binary == /\ NamedMediaType = "*/*"
                     /\ Get(CalledBodySchema, "type") = Str("string")
       IN  /\ result.kind = "return"
           /\ Len(result.value.e) = 1
           /\ Get(field, "name") = Str("body")
           /\ binary => /\ Get(field, "type") = Str("string")
                        /\ Get(field, "default") = Str("data")
                        /\ Get(field, "routing") = BinaryUploadRule
           /\ ~binary => Get(field, "routing") = RawBodyRule

C17_Witness ==
    /\ IsScalarBodyCall
    /\ Len(Get(CalledBody, "content").e) = 2
    /\ NamedMediaType = "*/*"
    /\ result.kind = "return"
    /\ Get(result.value.e[1].v, "name") = Str("body")
    /\ Get(result.value.e[1].v, "default") = Str("data")
    /\ Get(result.value.e[1].v, "routing") = BinaryUploadRule

\* what the first variant returns for the schema of a second-variant call
FirstVariant == FromSchema(call.arg)

SamePresentation ==
    /\ Get(result.value, "type") = Get(FirstVariant, "type")
    /\ Get(result.value, "description") = Get(FirstVariant, "description")
    /\ Get(result.value, "options") = Get(FirstVariant, "options")

TabledSecondVariantCall ==
    Returned("fromSchemaSecondVariant") /\ Get(CalledSchema, "type") \in TableKinds

\* C18 as stated: the two variants of fromSchema return the same type, description
\* and options and differ only in the default: where the first leaves it unset the
\* second emits a concrete one, '' for string or unspecified and 0 for number or
\* integer, with false for boolean; wherever the first sets a default, and so
\* whenever an example exists, both return the same default.
C18_VariantsDifferOnlyWhereUnset ==
    TabledSecondVariantCall
    => LET kind == Get(CalledSchema, "type")
           first == Get(FirstVariant, "default")
           second == Get(result.value, "default")
       IN  /\ SamePresentation
           /\ first # Undefined => second = first
           /\ first = Undefined
              => /\ second # Undefined
                 /\ kind \in {Str("string"), Undefined} => second = Str("")
                 /\ kind \in {Str("number"), Str("integer")} => second = Num(0)

\* the concrete default the second variant emits for a kind without example
ConcreteDefault(kind) ==
    CASE kind = Str("boolean") -> Bool(TRUE)
      [] kind \in {Str("string"), Undefined} -> Str("")
      [] kind = Str("object") -> Str("{}")
      [] kind = Str("array") -> Str("[]")
      [] kind \in {Str("number"), Str("integer")} -> Num(0)

\* C18 (amended): the two variants return the same type, description and options.
\* Without an enumeration they return the same default when an example exists, and
\* without example the second emits true for boolean, '' for string or unspecified,
\* '{}' for object, '[]' for array and 0 for number or integer. With an enumeration
\* the second keeps that default only when it is truthy and else takes the first
\* literal, so it agrees with the first variant except for an example of '', 0 or
\* false, and for a boolean, object or array without example.
C18_VariantsDefaultPolicy ==
    TabledSecondVariantCall
    => LET kind == Get(CalledSchema, "type")
           example == Get(CalledSchema, "example")
           enum == Get(CalledSchema, "enum")
           first == Get(FirstVariant, "default")
           second == Get(result.value, "default")
           plain == IF example # Undefined THEN TableDefault(kind, example)
                    ELSE ConcreteDefault(kind)
       IN  /\ SamePresentation
           /\ ~HasEnumeration(CalledSchema)
              => /\ second = plain
                 /\ example # Undefined => second = first
                 /\ (example = Undefined /\ kind # Str("boolean")) => first = Undefined
                 /\ (example = Undefined /\ kind = Str("boolean")) => first = Bool(FALSE)
           /\ HasEnumeration(CalledSchema)
              => /\ second = IF Truthy(plain) THEN plain ELSE enum.e[1].v
                 /\ (example \in {Str(""), Num(0), Bool(FALSE)}
                     /\ kind \notin {Str("object"), Str("array")})
                    => (first = example /\ second = enum.e[1].v)
                 /\ (example = Undefined
                     /\ kind \in {Str("boolean"), Str("object"), Str("array")})
                    => second = ConcreteDefault(kind) /\ first # second
                 /\ ( /\ example \notin {Str(""), Num(0), Bool(FALSE)}
                      /\ ~( /\ example = Undefined
                            /\ kind \in {Str("boolean"), Str("object"), Str("array")} ) )
                    => second = first

C18_Witness ==
    /\ Returned("fromSchemaSecondVariant")
    /\ CalledSchema = Obj(<<KV("type", Str("boolean"))>>)
    /\ Get(result.value, "type") = Str("boolean")
    /\ Get(result.value, "default") = Bool(TRUE)
    /\ Get(FirstVariant, "default") = Bool(FALSE)

\* the walk that returned walked a document an earlier walk had normalized
WalkedAgain == WalkReturned /\ walks > 1 /\ "visitOperation" \in visitor

\* C19: the in-place normalization is idempotent: for any document, path-scoped
\* reference parameters included, and any visitor that has visitOperation, a second
\* walk of the same document leaves the tag list and the parameter list of every
\* operation as they were after the first walk, and no walk changes the path-scoped
\* parameter list of a path item.
C19_NormalizationIdempotent ==
    /\ WalkedAgain =>
          \A i \in 1..Len(OperationPlaces(docAtWalk)) :
              LET place == OperationPlaces(docAtWalk)[i]
              IN  /\ Get(OperationAt(doc, place), "tags")
                         = Get(OperationAt(docAtWalk, place), "tags")
                  /\ Get(OperationAt(doc, place), "parameters")
                         = Get(OperationAt(docAtWalk, place), "parameters")
    /\ \A i \in 1..Len(Get(docAtWalk, "paths").e) :
          Get(Get(doc, "paths").e[i].v, "parameters")
              = Get(Get(docAtWalk, "paths").e[i].v, "parameters")

====
